---- MODULE Spec2Model ----
(***************************************************************************)
(* Model of layout_indicator_tray.py: the EN<->RU layout mapper, the       *)
(* synthetic input driver, the clipboard mediator, the three conversion    *)
(* strategies (plain window, classic console, Windows Terminal) and the    *)
(* hotkey listener thread that dispatches one worker thread per hotkey.    *)
(*                                                                         *)
(* A character is its Unicode code point (ord(c)); a text is a sequence    *)
(* of code points.  An optional value (Python None or a value) is a        *)
(* sequence of length 0 or 1.                                              *)
(***************************************************************************)
EXTENDS Integers, Sequences, FiniteSets, TLC

VARIABLES
    \* ---- layout mapper exercised on its own (SpecMapper) ----
    mpc,               \* "off" | "input" | "detected" | "converted" | "back"
    mtext,             \* the text given to detect_layout / convert_text
    mlayout,           \* detect_layout(mtext)
    mout,              \* convert_text(mtext)
    mback,             \* convert_text(convert_text(mtext))
    \* ---- LayoutIndicator and its hotkey thread ----
    running,           \* self.running
    hotkey_registered, \* self.hotkey_registered
    lpc,               \* position of hotkey_thread_func; "killed": ended
                       \* by the exit of the process
    osHotkey,          \* the OS holds this thread's registration of id 1
    msgs,              \* message queue of the hotkey thread
    pressesLeft,       \* hotkey presses the user will still make
    \* ---- desktop the program acts on ----
    fg,                \* GetForegroundWindow(): 0 is NULL
    clipboard,         \* CF_UNICODETEXT content: <<>> or <<text>>
    selection,         \* text selected in the focused application
    prevWord,          \* word left of the caret (Ctrl+Shift+Left selects it)
    consoleRow,        \* console screen row from column 0 up to the cursor
    attached,          \* this process is attached to a console
    inputBlocked,      \* SendInput is blocked (UIPI, another thread's
                       \* BlockInput): it inserts fewer events than submitted
    clipOpen,          \* times this process holds the clipboard open
    before,            \* clipboard and selection when the behaviour starts
                       \* (in SpecAttempt: when the hotkey was pressed)
    \* ---- border overlay: UI thread (_check_layout) and tray thread ----
    borders_visible,   \* self.borders_visible
    fullscreen_hidden, \* self.fullscreen_hidden
    borders,           \* self.borders: for each BorderWindow, its layers are shown
    current_monitors,  \* self.current_monitors (the configuration's number)
    monitors,          \* what get_all_monitors() returns now
    upc,               \* position of _check_layout on the UI thread
    ui,                \* index of its loop over self.borders
    pending,           \* the border just created, not appended yet, is shown
    tpc,               \* position of toggle_borders on the tray thread
    ti,                \* index of its loop over self.borders
    tstale,            \* the list that loop iterates has been replaced
    \* ---- worker threads running convert_selected_text ----
    wpc,               \* position of each worker; "killed" as for lpc
    whwnd,             \* hwnd obtained at the start of the attempt
    word,              \* acquired text (selected_text / word): <<>> or <<text>>
    converted,         \* converted text: <<>> or <<text>>
    target_layout,     \* "en" | "ru" | "none"
    result,            \* return value: "none" | "True" | "False"
    idx,               \* loop counter of the backspace / type_text loops
    log,               \* OS calls issued by the worker, in order
    short              \* some SendInput of the attempt accepted fewer events

mapperVars   == <<mpc, mtext, mlayout, mout, mback>>
listenerVars == <<running, hotkey_registered, lpc, osHotkey, msgs>>
desktopVars  == <<fg, clipboard, selection, prevWord, consoleRow, attached,
                  inputBlocked>>
borderVars   == <<borders_visible, fullscreen_hidden, borders, current_monitors,
                  monitors, upc, ui, pending, tpc, ti, tstale>>
workerVars   == <<wpc, whwnd, word, converted, target_layout, result, idx,
                  log, short>>
vars == <<mpc, mtext, mlayout, mout, mback,
          running, hotkey_registered, lpc, osHotkey, msgs, pressesLeft,
          fg, clipboard, selection, prevWord, consoleRow, attached, inputBlocked,
          clipOpen, before,
          borders_visible, fullscreen_hidden, borders, current_monitors,
          monitors, upc, ui, pending, tpc, ti, tstale,
          wpc, whwnd, word, converted, target_layout, result, idx, log, short>>

-----------------------------------------------------------------------------
(* Bounds *)

MaxLen     == 3     \* longest text given to the mapper in SpecMapper
MaxPresses == 2     \* hotkey presses (hence workers) in Spec
MaxQueue   == 1     \* messages waiting in the hotkey thread's queue
MaxMonitors == 2    \* monitors of a configuration

-----------------------------------------------------------------------------
(* Program constants *)

VK_BACKSPACE == 8
VK_SHIFT     == 16
VK_CONTROL   == 17
VK_END       == 35
VK_LEFT      == 37
VK_INSERT    == 45
VK_C         == 67
VK_V         == 86

KEYEVENTF_EXTENDEDKEY == 1
KEYEVENTF_KEYUP       == 2
KEYEVENTF_UNICODE     == 4

EdgesPerMonitor   == 4             \* SHOW_ALL_EDGES: top, bottom, left, right
HOTKEY_ID_CONVERT == 1
WM_HOTKEY         == 786
HKL_EN            == 67699721      \* 0x04090409
HKL_RU            == 68748313      \* 0x04190419

\* `qwertyuiop[]asdfghjkl;'zxcvbnm,./~QWERTYUIOP{}ASDFGHJKL:"ZXCVBNM<>?@#$^&
EN_CHARS ==
    << 96, 113, 119, 101, 114, 116, 121, 117, 105, 111, 112, 91, 93,
       97, 115, 100, 102, 103, 104, 106, 107, 108, 59, 39,
       122, 120, 99, 118, 98, 110, 109, 44, 46, 47,
       126, 81, 87, 69, 82, 84, 89, 85, 73, 79, 80, 123, 125,
       65, 83, 68, 70, 71, 72, 74, 75, 76, 58, 34,
       90, 88, 67, 86, 66, 78, 77, 60, 62, 63,
       64, 35, 36, 94, 38 >>

\* the Cyrillic keys at the same positions, then  , " No ; : ?
RU_CHARS ==
    << 1105, 1081, 1094, 1091, 1082, 1077, 1085, 1075, 1096, 1097, 1079, 1093, 1098,
       1092, 1099, 1074, 1072, 1087, 1088, 1086, 1083, 1076, 1078, 1101,
       1103, 1095, 1089, 1084, 1080, 1090, 1100, 1073, 1102, 46,
       1025, 1049, 1062, 1059, 1050, 1045, 1053, 1043, 1064, 1065, 1047, 1061, 1066,
       1060, 1067, 1042, 1040, 1055, 1056, 1054, 1051, 1044, 1046, 1069,
       1071, 1063, 1057, 1052, 1048, 1058, 1068, 1041, 1070, 44,
       34, 8470, 59, 58, 63 >>

-----------------------------------------------------------------------------
(* Layout mapper *)

\* c in TABLE, for a one-character string c
InTable(c, tbl) == \E k \in 1..Len(tbl) : tbl[k] = c

\* TABLE.index(c)
IndexIn(c, tbl) == CHOOSE k \in 1..Len(tbl) : tbl[k] = c

\* sum(1 for c in text if c in TABLE)
CountIn(text, tbl) == Cardinality({i \in 1..Len(text) : InTable(text[i], tbl)})

\* text.translate(str.maketrans(from, to))
Translate(text, from, to) ==
    [i \in 1..Len(text) |->
        IF InTable(text[i], from) THEN to[IndexIn(text[i], from)] ELSE text[i]]

detect_layout_gt(text) ==
    IF CountIn(text, EN_CHARS) > CountIn(text, RU_CHARS) THEN "en" ELSE "ru"

detect_layout_any_en(text) ==
    IF CountIn(text, EN_CHARS) > 0 THEN "en" ELSE "ru"

detect_layout(text) ==
    IF CountIn(text, EN_CHARS) >= CountIn(text, RU_CHARS) THEN "en" ELSE "ru"

convert_text_en_only(text) ==
    Translate(text, EN_CHARS, RU_CHARS)

convert_text_ru_only(text) ==
    Translate(text, RU_CHARS, EN_CHARS)

convert_text(text) ==
    IF detect_layout(text) = "en"
    THEN Translate(text, EN_CHARS, RU_CHARS)
    ELSE Translate(text, RU_CHARS, EN_CHARS)

\* target_layout = 'ru' if source_layout == 'en' else 'en'
OppositeSame(layout) == layout

Opposite(layout) == IF layout = "en" THEN "ru" ELSE "en"

-----------------------------------------------------------------------------
(* Texts *)

\* characters given to the mapper:  h / ? @ . , ; " 1 space  and the RU
\* letters on the keys of  h  i  .  ;
MapperChars == {104, 47, 63, 64, 46, 44, 59, 34, 49, 32, 1088, 1096, 1102, 1078}

SeqsUpTo(S, n) == UNION {[1..k -> S] : k \in 0..n}

MapperTexts == SeqsUpTo(MapperChars, MaxLen)

-----------------------------------------------------------------------------
(* Optional values and Python truthiness *)

None == <<>>
Some(v) == <<v>>

\* not x, for x a string or None
NotText(opt) == opt = None \/ opt[1] = <<>>

\* Python whitespace (str.isspace) among the code points below 256
Whitespace == {9, 10, 11, 12, 13, 28, 29, 30, 31, 32, 133, 160}

RECURSIVE rstrip(_)
rstrip(t) ==
    IF t # <<>> /\ t[Len(t)] \in Whitespace
    THEN rstrip(SubSeq(t, 1, Len(t) - 1))
    ELSE t

RECURSIVE lstrip(_)
lstrip(t) ==
    IF t # <<>> /\ t[1] \in Whitespace THEN lstrip(Tail(t)) ELSE t

\* word.strip()
strip(t) == lstrip(rstrip(t))

\* line.split()[-1] for a line that does not end in whitespace
RECURSIVE LastToken(_)
LastToken(t) ==
    IF t = <<>> \/ t[Len(t)] \in Whitespace
    THEN <<>>
    ELSE Append(LastToken(SubSeq(t, 1, Len(t) - 1)), t[Len(t)])

-----------------------------------------------------------------------------
(* Windows on the desktop *)

\* window handles: 0 is NULL
Hwnds == {1, 2, 3, 4}

\* get_window_class(hwnd): GetClassNameW leaves the buffer empty for NULL
get_window_class(hwnd) ==
    CASE hwnd = 1 -> "Notepad"
      [] hwnd = 2 -> "ConsoleWindowClass"
      [] hwnd = 3 -> "CASCADIA_HOSTING_WINDOW_CLASS"
      [] hwnd = 4 -> "PseudoConsoleWindow"
      [] OTHER    -> ""

is_console_window(hwnd) ==
    get_window_class(hwnd) \in
        {"ConsoleWindowClass", "CASCADIA_HOSTING_WINDOW_CLASS", "PseudoConsoleWindow"}

is_classic_console_cascadia(hwnd) ==
    get_window_class(hwnd) = "CASCADIA_HOSTING_WINDOW_CLASS"

is_classic_console(hwnd) == get_window_class(hwnd) = "ConsoleWindowClass"

\* the strategy convert_selected_text dispatches to
Category(hwnd) ==
    IF is_console_window(hwnd)
    THEN IF is_classic_console(hwnd) THEN "LegacyConsole" ELSE "ModernTerminal"
    ELSE "Plain"

-----------------------------------------------------------------------------
(* Synthetic input driver: the INPUT arrays handed to SendInput *)

\* scan_codes.get(vk, 0)
ScanCode(vk) ==
    CASE vk = 17 -> 29
      [] vk = 16 -> 42
      [] vk = 37 -> 75
      [] vk = 67 -> 46
      [] vk = 86 -> 47
      [] vk = 88 -> 45
      [] vk = 45 -> 82
      [] OTHER   -> 0

\* the array send_input_keys builds from keys, a sequence of <<vk, flags>>
send_input_keys(keys) ==
    [i \in 1..Len(keys) |->
        [wVk |-> keys[i][1], wScan |-> ScanCode(keys[i][1]), dwFlags |-> keys[i][2]]]

send_key_press(vk) ==
    send_input_keys(<< <<vk, 0>>, <<vk, KEYEVENTF_KEYUP>> >>)

send_key_combo_unnested(modifier_vk, key_vk) ==
    send_input_keys(<< <<modifier_vk, 0>>, <<key_vk, 0>>,
                       <<modifier_vk, KEYEVENTF_KEYUP>>, <<key_vk, KEYEVENTF_KEYUP>> >>)

send_key_combo(modifier_vk, key_vk) ==
    send_input_keys(<< <<modifier_vk, 0>>, <<key_vk, 0>>,
                       <<key_vk, KEYEVENTF_KEYUP>>, <<modifier_vk, KEYEVENTF_KEYUP>> >>)

send_ctrl_key(key_vk) == send_key_combo(VK_CONTROL, key_vk)

\* Extended keys: arrows, Insert, Delete, Home, End, Page Up/Down
extended_keys == {37, 38, 39, 40, 45, 46, 36, 35, 33, 34}

send_two_modifier_combo(mod1_vk, mod2_vk, key_vk) ==
    LET key_flags == IF key_vk \in extended_keys THEN KEYEVENTF_EXTENDEDKEY ELSE 0
    IN  send_input_keys(<< <<mod1_vk, 0>>, <<mod2_vk, 0>>,
                           <<key_vk, key_flags>>,
                           <<key_vk, key_flags + KEYEVENTF_KEYUP>>,
                           <<mod2_vk, KEYEVENTF_KEYUP>>, <<mod1_vk, KEYEVENTF_KEYUP>> >>)

\* the two INPUTs type_text submits for one character; wScan is a 16-bit WORD
type_char(char) ==
    << [wVk |-> 0, wScan |-> char % 65536, dwFlags |-> KEYEVENTF_UNICODE],
       [wVk |-> 0, wScan |-> char % 65536,
        dwFlags |-> KEYEVENTF_UNICODE + KEYEVENTF_KEYUP] >>

\* hkl = HKL_EN if to_lang == 'en' else HKL_RU
LayoutHklSwapped(to_lang) == IF to_lang = "en" THEN HKL_RU ELSE HKL_EN

LayoutHkl(to_lang) == IF to_lang = "en" THEN HKL_EN ELSE HKL_RU

-----------------------------------------------------------------------------
(* Entries of a worker's log: one per OS call or mediator call *)

SendInputCall(inputs)   == [call |-> "SendInput", inputs |-> inputs, arg |-> <<>>]
ClearCall               == [call |-> "clear_clipboard", inputs |-> <<>>, arg |-> <<>>]
ReadCall(ret)           == [call |-> "get_clipboard_text", inputs |-> <<>>, arg |-> ret]
WriteCall(text)         == [call |-> "set_clipboard_text", inputs |-> <<>>, arg |-> text]
ConsoleCall(ret)        == [call |-> "get_console_last_word", inputs |-> <<>>, arg |-> ret]
PostCall(hwnd, hkl)     == [call |-> "PostMessageW", inputs |-> <<>>, arg |-> <<hwnd, hkl>>]
ForegroundCall(hwnd)    == [call |-> "GetForegroundWindow", inputs |-> <<>>, arg |-> <<hwnd>>]

IsSend(e, inputs) == e.call = "SendInput" /\ e.inputs = inputs

IsBackspace(e) == IsSend(e, send_key_press(VK_BACKSPACE))
IsEnd(e)       == IsSend(e, send_key_press(VK_END))
IsCopy(e)      == IsSend(e, send_ctrl_key(VK_INSERT))
IsPaste(e)     == IsSend(e, send_ctrl_key(VK_V))
IsExtend(e)    == IsSend(e, send_two_modifier_combo(VK_CONTROL, VK_SHIFT, VK_LEFT))
IsTermCopy(e)  == IsSend(e, send_two_modifier_combo(VK_CONTROL, VK_SHIFT, VK_C))
IsInject(e)    == e.call = "SendInput" /\ Len(e.inputs) = 2
                    /\ e.inputs[1].dwFlags = KEYEVENTF_UNICODE
IsRead(e)      == e.call = "get_clipboard_text"
IsWrite(e)     == e.call = "set_clipboard_text"
IsClear(e)     == e.call = "clear_clipboard"
IsPost(e)      == e.call = "PostMessageW"
IsForeground(e) == e.call = "GetForegroundWindow"

\* positions of the entries of l that satisfy P
Where(l, P(_)) == {i \in 1..Len(l) : P(l[i])}
Count(l, P(_)) == Cardinality(Where(l, P))

-----------------------------------------------------------------------------
(* Clipboard mediator: what each call can return and leave behind *)

\* ctypes.wstring_at: the text up to the first NUL
RECURSIVE wstring_at(_)
wstring_at(units) ==
    IF units = <<>> \/ units[1] = 0 THEN <<>>
    ELSE <<units[1]>> \o wstring_at(Tail(units))

\* The OS calls of one mediator call, in order; "OpenClipboard" is a call
\* that succeeded, "OpenClipboardFailed" one that did not
Opened == "OpenClipboard"
OpenFailed == "OpenClipboardFailed"
Closed == "CloseClipboard"

\* get_clipboard_text(): <<returned, OS calls>>.  None when OpenClipboard,
\* GetClipboardData or GlobalLock fails, else the stored text
get_clipboard_text_leak(clip) ==
    { <<None, <<OpenFailed>>>>,
      <<None, <<Opened, "GetClipboardData">>>>,
      <<None, <<Opened, "GetClipboardData", "GlobalLock",
                Closed>>>> }
    \cup (IF clip = None THEN {}
          ELSE { <<Some(wstring_at(clip[1] \o <<0>>)),
                   <<Opened, "GetClipboardData", "GlobalLock",
                     "GlobalUnlock", Closed>>>> })

get_clipboard_text(clip) ==
    { <<None, <<OpenFailed>>>>,
      <<None, <<Opened, "GetClipboardData", Closed>>>>,
      <<None, <<Opened, "GetClipboardData", "GlobalLock",
                Closed>>>> }
    \cup (IF clip = None THEN {}
          ELSE { <<Some(wstring_at(clip[1] \o <<0>>)),
                   <<Opened, "GetClipboardData", "GlobalLock",
                     "GlobalUnlock", Closed>>>> })

\* set_clipboard_text(text): <<returned, clipboard afterwards, OS calls>>.
\* A failed GlobalAlloc or GlobalLock comes after EmptyClipboard.
set_clipboard_text(clip, text) ==
    { <<FALSE, clip, <<OpenFailed>>>>,
      <<FALSE, None, <<Opened, "EmptyClipboard", "GlobalAlloc",
                       Closed>>>>,
      <<FALSE, None, <<Opened, "EmptyClipboard", "GlobalAlloc",
                       "GlobalLock", Closed>>>>,
      <<TRUE, Some(text), <<Opened, "EmptyClipboard", "GlobalAlloc",
                            "GlobalLock", "GlobalUnlock", "SetClipboardData",
                            Closed>>>> }

\* clear_clipboard(): <<clipboard afterwards, OS calls>>; nothing happens
\* when OpenClipboard fails
clear_clipboard(clip) ==
    { <<clip, <<OpenFailed>>>>,
      <<None, <<Opened, "EmptyClipboard", Closed>>>> }

\* successful OpenClipboard calls minus CloseClipboard calls
Held(calls) ==
    Cardinality({i \in 1..Len(calls) : calls[i] = Opened})
        - Cardinality({i \in 1..Len(calls) : calls[i] = Closed})

\* get_console_last_word(hwnd): <<returned, attached afterwards>>
get_console_last_word(row) ==
    LET line == rstrip(row)
    IN  { <<None, FALSE>> }            \* AttachConsole or GetStdHandle failed
        \cup { <<None, TRUE>> }        \* GetConsoleScreenBufferInfo failed
        \cup (IF Len(row) = 0
              THEN { <<None, TRUE>> }  \* cursor_x == 0
              ELSE IF line = <<>>
                   THEN { <<None, FALSE>> }
                   ELSE { <<Some(LastToken(line)), FALSE>> })

-----------------------------------------------------------------------------
(* Decisions of the conversion strategies *)

\* if converted == word: return False
UnchangedNever(text, conv) == FALSE

Unchanged(text, conv) == conv = text

\* if not selected_text: [fallback, once] ... if not selected_text: return False
AfterPlainReadNoFallback(pc, ret) ==
    IF NotText(ret) THEN "return" ELSE "plain_convert"

AfterPlainRead(pc, ret) ==
    IF NotText(ret)
    THEN IF pc = "plain_read1" THEN "plain_extend" ELSE "return"
    ELSE "plain_convert"

\* for _ in range(len(word))
DeleteCountShort(text) == Len(text) - 1

DeleteCount(text) == Len(text)

-----------------------------------------------------------------------------
(* Worker threads: threading.Thread(target=convert_selected_text) *)

Workers == 1..MaxPresses

Running(w) == wpc[w] \notin {"idle", "done", "raised", "killed"}

Goto(w, pc) == wpc' = [wpc EXCEPT ![w] = pc]

Return(w, val) ==
    /\ wpc' = [wpc EXCEPT ![w] = "done"]
    /\ result' = [result EXCEPT ![w] = val]

Logged(w, e) == log' = [log EXCEPT ![w] = Append(@, e)]

\* result == n: the OS accepted every event of the array
Accepted == ~inputBlocked

\* one SendInput call
Send(w, inputs) ==
    /\ Logged(w, SendInputCall(inputs))
    /\ short' = [short EXCEPT ![w] = @ \/ ~Accepted]

\* source_layout = detect_layout(word); converted = convert_text(word);
\* if converted == word: return False; target_layout = ...
Convert(w, next) ==
    LET text == word[w][1]
        conv == convert_text(text)
    IN  /\ converted' = [converted EXCEPT ![w] = Some(conv)]
        /\ IF Unchanged(text, conv)
           THEN /\ Return(w, "False")
                /\ UNCHANGED target_layout
           ELSE /\ Goto(w, next)
                /\ target_layout' =
                       [target_layout EXCEPT ![w] = Opposite(detect_layout(text))]
                /\ UNCHANGED result
        /\ UNCHANGED <<whwnd, word, idx, log, short>>
        /\ UNCHANGED <<borderVars, before, clipOpen, mapperVars, listenerVars, pressesLeft, desktopVars>>

\* for _ in range(len(word)): send_key_press(VK_BACKSPACE)
Backspaces(w, next) ==
    /\ IF idx[w] < DeleteCount(word[w][1])
       THEN /\ Send(w, send_key_press(VK_BACKSPACE))
            /\ idx' = [idx EXCEPT ![w] = @ + 1]
            /\ UNCHANGED wpc
       ELSE /\ idx' = [idx EXCEPT ![w] = 0]
            /\ Goto(w, next)
            /\ UNCHANGED <<log, short>>
    /\ UNCHANGED <<whwnd, word, converted, target_layout, result>>
    /\ UNCHANGED <<borderVars, before, clipOpen, mapperVars, listenerVars, pressesLeft, desktopVars>>

\* type_text(converted): one SendInput of two events per character
TypeText(w, next) ==
    /\ IF idx[w] < Len(converted[w][1])
       THEN /\ Send(w, type_char(converted[w][1][idx[w] + 1]))
            /\ idx' = [idx EXCEPT ![w] = @ + 1]
            /\ UNCHANGED wpc
       ELSE /\ idx' = [idx EXCEPT ![w] = 0]
            /\ Goto(w, next)
            /\ UNCHANGED <<log, short>>
    /\ UNCHANGED <<whwnd, word, converted, target_layout, result>>
    /\ UNCHANGED <<borderVars, before, clipOpen, mapperVars, listenerVars, pressesLeft, desktopVars>>

\* switch_keyboard_layout(target_layout); return True
switch_keyboard_layout(w) ==
    /\ log' = [log EXCEPT ![w] =
                 IF fg # 0
                 THEN @ \o <<ForegroundCall(fg),
                             PostCall(fg, LayoutHkl(target_layout[w]))>>
                 ELSE Append(@, ForegroundCall(fg))]
    /\ Return(w, "True")
    /\ UNCHANGED <<whwnd, word, converted, target_layout, idx, short>>
    /\ UNCHANGED <<borderVars, before, clipOpen, mapperVars, listenerVars, pressesLeft, desktopVars>>

\* a copy combo: the focused application may put its selection on the clipboard
CopyCombo(w, inputs, next) ==
    /\ \E copied \in BOOLEAN :
         /\ Send(w, inputs)
         /\ clipboard' = IF Accepted /\ copied /\ selection # <<>>
                         THEN Some(selection) ELSE clipboard
    /\ Goto(w, next)
    /\ UNCHANGED <<whwnd, word, converted, target_layout, result, idx>>
    /\ UNCHANGED <<borderVars, before, clipOpen, mapperVars, listenerVars, pressesLeft>>
    /\ UNCHANGED <<fg, selection, prevWord, consoleRow, attached, inputBlocked>>

\* clear_clipboard() under a lock that the acquisition (copy combo to
\* clipboard read) and the replacement (clipboard write to paste) would hold
ClearClipboardLocked(w, next) ==
    /\ \A v \in Workers \ {w} :
         wpc[v] \notin {"term_read", "plain_read1", "plain_read2", "plain_paste"}
    /\ \E r \in clear_clipboard(clipboard) :
         /\ clipboard' = r[1]
         /\ clipOpen' = clipOpen + Held(r[2])
    /\ Logged(w, ClearCall)
    /\ Goto(w, next)
    /\ UNCHANGED <<whwnd, word, converted, target_layout, result, idx, short>>
    /\ UNCHANGED <<borderVars, before, mapperVars, listenerVars, pressesLeft>>
    /\ UNCHANGED <<fg, selection, prevWord, consoleRow, attached, inputBlocked>>

\* clear_clipboard()
ClearClipboard(w, next) ==
    /\ \E r \in clear_clipboard(clipboard) :
         /\ clipboard' = r[1]
         /\ clipOpen' = clipOpen + Held(r[2])
    /\ Logged(w, ClearCall)
    /\ Goto(w, next)
    /\ UNCHANGED <<whwnd, word, converted, target_layout, result, idx, short>>
    /\ UNCHANGED <<borderVars, before, mapperVars, listenerVars, pressesLeft>>
    /\ UNCHANGED <<fg, selection, prevWord, consoleRow, attached, inputBlocked>>

-----------------------------------------------------------------------------
(* convert_selected_text: classification and the plain-window strategy *)

WStart(w) ==
    /\ wpc[w] = "start"
    /\ whwnd' = [whwnd EXCEPT ![w] = fg]
    /\ Logged(w, ForegroundCall(fg))
    /\ Goto(w, CASE Category(fg) = "LegacyConsole"  -> "con_read"
                 [] Category(fg) = "ModernTerminal" -> "term_clear"
                 [] OTHER                           -> "plain_clear")
    /\ UNCHANGED <<word, converted, target_layout, result, idx, short>>
    /\ UNCHANGED <<borderVars, before, clipOpen, mapperVars, listenerVars, pressesLeft, desktopVars>>

PlainClear(w) ==
    /\ wpc[w] = "plain_clear"
    /\ ClearClipboard(w, "plain_copy1")

PlainCopy(w) ==
    /\ wpc[w] \in {"plain_copy1", "plain_copy2"}
    /\ CopyCombo(w, send_ctrl_key(VK_INSERT),
                 IF wpc[w] = "plain_copy1" THEN "plain_read1" ELSE "plain_read2")

\* selected_text = get_clipboard_text(), the first and the second time
PlainRead(w) ==
    /\ wpc[w] \in {"plain_read1", "plain_read2"}
    /\ \E r \in get_clipboard_text(clipboard) : LET ret == r[1] IN
         /\ clipOpen' = clipOpen + Held(r[2])
         /\ word' = [word EXCEPT ![w] = ret]
         /\ Logged(w, ReadCall(ret))
         /\ IF AfterPlainRead(wpc[w], ret) = "return"
            THEN Return(w, "False")
            ELSE Goto(w, AfterPlainRead(wpc[w], ret)) /\ UNCHANGED result
    /\ UNCHANGED <<whwnd, converted, target_layout, idx, short>>
    /\ UNCHANGED <<borderVars, before, mapperVars, listenerVars, pressesLeft, desktopVars>>

\* send_two_modifier_combo(VK_CONTROL, VK_SHIFT, VK_LEFT)
PlainExtend(w) ==
    /\ wpc[w] = "plain_extend"
    /\ \E moved \in BOOLEAN :
         /\ Send(w, send_two_modifier_combo(VK_CONTROL, VK_SHIFT, VK_LEFT))
         /\ selection' = IF Accepted /\ moved /\ selection = <<>>
                         THEN prevWord ELSE selection
    /\ Goto(w, "plain_copy2")
    /\ UNCHANGED <<whwnd, word, converted, target_layout, result, idx>>
    /\ UNCHANGED <<borderVars, before, clipOpen, mapperVars, listenerVars, pressesLeft>>
    /\ UNCHANGED <<fg, clipboard, prevWord, consoleRow, attached, inputBlocked>>

PlainConvert(w) ==
    /\ wpc[w] = "plain_convert"
    /\ Convert(w, "plain_write")

\* if not set_clipboard_text(converted): return False
PlainWrite(w) ==
    /\ wpc[w] = "plain_write"
    /\ \E r \in set_clipboard_text(clipboard, converted[w][1]) :
         /\ clipboard' = r[2]
         /\ clipOpen' = clipOpen + Held(r[3])
         /\ IF r[1]
            THEN Goto(w, "plain_paste") /\ UNCHANGED result
            ELSE Return(w, "False")
    /\ Logged(w, WriteCall(converted[w][1]))
    /\ UNCHANGED <<whwnd, word, converted, target_layout, idx, short>>
    /\ UNCHANGED <<borderVars, before, mapperVars, listenerVars, pressesLeft>>
    /\ UNCHANGED <<fg, selection, prevWord, consoleRow, attached, inputBlocked>>

\* send_ctrl_key(VK_V): the focused application replaces its selection
PlainPaste(w) ==
    /\ wpc[w] = "plain_paste"
    /\ Send(w, send_ctrl_key(VK_V))
    /\ selection' = IF Accepted THEN <<>> ELSE selection
    /\ Goto(w, "plain_switch")
    /\ UNCHANGED <<whwnd, word, converted, target_layout, result, idx>>
    /\ UNCHANGED <<borderVars, before, clipOpen, mapperVars, listenerVars, pressesLeft>>
    /\ UNCHANGED <<fg, clipboard, prevWord, consoleRow, attached, inputBlocked>>

PlainSwitch(w) ==
    /\ wpc[w] = "plain_switch"
    /\ switch_keyboard_layout(w)

-----------------------------------------------------------------------------
(* convert_in_console *)

\* word = get_console_last_word(hwnd); if not word: return False
ConsoleRead(w) ==
    /\ wpc[w] = "con_read"
    /\ \E r \in get_console_last_word(consoleRow) :
         /\ attached' = r[2]
         /\ word' = [word EXCEPT ![w] = r[1]]
         /\ Logged(w, ConsoleCall(r[1]))
         /\ IF NotText(r[1])
            THEN Return(w, "False")
            ELSE Goto(w, "con_convert") /\ UNCHANGED result
    /\ UNCHANGED <<whwnd, converted, target_layout, idx, short>>
    /\ UNCHANGED <<borderVars, before, clipOpen, mapperVars, listenerVars, pressesLeft>>
    /\ UNCHANGED <<fg, clipboard, selection, prevWord, consoleRow, inputBlocked>>

ConsoleConvert(w) ==
    /\ wpc[w] = "con_convert"
    /\ Convert(w, "con_bs")

ConsoleBackspace(w) ==
    /\ wpc[w] = "con_bs"
    /\ Backspaces(w, "con_type")

ConsoleType(w) ==
    /\ wpc[w] = "con_type"
    /\ TypeText(w, "con_switch")

ConsoleSwitchClearing(w) ==
    /\ wpc[w] = "con_switch"
    /\ ClearClipboard(w, "done")

ConsoleSwitch(w) ==
    /\ wpc[w] = "con_switch"
    /\ switch_keyboard_layout(w)

-----------------------------------------------------------------------------
(* convert_in_terminal *)

TermClear(w) ==
    /\ wpc[w] = "term_clear"
    /\ ClearClipboard(w, "term_copy")

\* send_two_modifier_combo(VK_CONTROL, VK_SHIFT, VK_C)
TermCopy(w) ==
    /\ wpc[w] = "term_copy"
    /\ CopyCombo(w, send_two_modifier_combo(VK_CONTROL, VK_SHIFT, VK_C), "term_read")

\* word = get_clipboard_text(); if not word: return False;
\* word = word.strip(); if not word: return False
TermRead(w) ==
    /\ wpc[w] = "term_read"
    /\ \E r \in get_clipboard_text(clipboard) : LET ret == r[1] IN
         /\ clipOpen' = clipOpen + Held(r[2])
         /\ Logged(w, ReadCall(ret))
         /\ IF NotText(ret)
            THEN /\ word' = [word EXCEPT ![w] = ret]
                 /\ Return(w, "False")
            ELSE /\ word' = [word EXCEPT ![w] = Some(strip(ret[1]))]
                 /\ IF NotText(Some(strip(ret[1])))
                    THEN Return(w, "False")
                    ELSE Goto(w, "term_convert") /\ UNCHANGED result
    /\ UNCHANGED <<whwnd, converted, target_layout, idx, short>>
    /\ UNCHANGED <<borderVars, before, mapperVars, listenerVars, pressesLeft, desktopVars>>

TermConvert(w) ==
    /\ wpc[w] = "term_convert"
    /\ Convert(w, "term_end")

\* send_key_press(VK_END)
TermEnd(w) ==
    /\ wpc[w] = "term_end"
    /\ Send(w, send_key_press(VK_END))
    /\ Goto(w, "term_bs")
    /\ UNCHANGED <<whwnd, word, converted, target_layout, result, idx>>
    /\ UNCHANGED <<borderVars, before, clipOpen, mapperVars, listenerVars, pressesLeft, desktopVars>>

TermBackspace(w) ==
    /\ wpc[w] = "term_bs"
    /\ Backspaces(w, "term_type")

TermType(w) ==
    /\ wpc[w] = "term_type"
    /\ TypeText(w, "term_switch")

TermSwitch(w) ==
    /\ wpc[w] = "term_switch"
    /\ switch_keyboard_layout(w)

\* an exception raised by a call of the attempt ends the worker thread
WorkerRaiseInListener(w) ==
    /\ Running(w)
    /\ wpc[w] # "start"
    /\ Goto(w, "raised")
    /\ lpc' = "exited"
    /\ UNCHANGED <<running, hotkey_registered, osHotkey, msgs>>
    /\ UNCHANGED <<whwnd, word, converted, target_layout, result, idx, log, short>>
    /\ UNCHANGED <<borderVars, before, clipOpen, mapperVars, pressesLeft, desktopVars>>

WorkerRaise(w) ==
    /\ Running(w)
    /\ wpc[w] # "start"
    /\ Goto(w, "raised")
    /\ UNCHANGED <<whwnd, word, converted, target_layout, result, idx, log, short>>
    /\ UNCHANGED <<borderVars, before, clipOpen, mapperVars, listenerVars, pressesLeft, desktopVars>>

-----------------------------------------------------------------------------
(* Hotkey thread: LayoutIndicator._setup_hotkey.hotkey_thread_func *)

HotkeyMsg == [message |-> WM_HOTKEY, wParam |-> HOTKEY_ID_CONVERT]

\* messages that are not the conversion hotkey: another hotkey id, a WM_TIMER
OtherMsgs == { [message |-> WM_HOTKEY, wParam |-> 2],
               [message |-> 275, wParam |-> HOTKEY_ID_CONVERT] }

\* msg.message == WM_HOTKEY and msg.wParam == HOTKEY_ID_CONVERT
IsConvertHotkeyAnyId(msg) == msg.message = WM_HOTKEY

IsConvertHotkey(msg) == msg.message = WM_HOTKEY /\ msg.wParam = HOTKEY_ID_CONVERT

\* the worker a new thread gets: the first one not started yet
NextWorker == CHOOSE w \in Workers :
                 wpc[w] = "idle" /\ \A v \in Workers : wpc[v] = "idle" => w <= v

\* threading.Thread(target=convert_selected_text, daemon=True).start()
StartWorker ==
    /\ wpc' = [wpc EXCEPT ![NextWorker] = "start"]
    /\ UNCHANGED result

RegisterFlagFirst ==
    /\ lpc = "register"
    /\ hotkey_registered' = TRUE
    /\ \E ok \in BOOLEAN :
         IF ok
         THEN osHotkey' = TRUE /\ lpc' = "loop"
         ELSE lpc' = "exited" /\ UNCHANGED osHotkey
    /\ UNCHANGED <<running, msgs, pressesLeft>>
    /\ UNCHANGED <<borderVars, before, clipOpen, mapperVars, desktopVars, workerVars>>

\* if not user32.RegisterHotKey(...): return
Register ==
    /\ lpc = "register"
    /\ \E ok \in BOOLEAN :
         IF ok
         THEN /\ osHotkey' = TRUE
              /\ hotkey_registered' = TRUE
              /\ lpc' = "loop"
         ELSE /\ lpc' = "exited"
              /\ UNCHANGED <<osHotkey, hotkey_registered>>
    /\ UNCHANGED <<running, msgs, pressesLeft>>
    /\ UNCHANGED <<borderVars, before, clipOpen, mapperVars, desktopVars, workerVars>>

LoopTestReRegister ==
    /\ lpc = "loop"
    /\ lpc' = IF running THEN "register" ELSE "unregister"
    /\ UNCHANGED <<running, hotkey_registered, osHotkey, msgs, pressesLeft>>
    /\ UNCHANGED <<borderVars, before, clipOpen, mapperVars, desktopVars, workerVars>>

\* while self.running:
LoopTest ==
    /\ lpc = "loop"
    /\ lpc' = IF running THEN "peek" ELSE "unregister"
    /\ UNCHANGED <<running, hotkey_registered, osHotkey, msgs, pressesLeft>>
    /\ UNCHANGED <<borderVars, before, clipOpen, mapperVars, desktopVars, workerVars>>

\* if PeekMessageW(..., PM_REMOVE): dispatch a worker for the conversion
\* hotkey; else: time.sleep(0.05)
Peek ==
    /\ lpc = "peek"
    /\ lpc' = "loop"
    /\ IF msgs # <<>>
       THEN /\ msgs' = Tail(msgs)
            /\ IF IsConvertHotkey(Head(msgs)) /\ \E w \in Workers : wpc[w] = "idle"
               THEN StartWorker
               ELSE UNCHANGED <<wpc, result>>
       ELSE UNCHANGED <<msgs, wpc, result>>
    /\ UNCHANGED <<running, hotkey_registered, osHotkey, pressesLeft>>
    /\ UNCHANGED <<whwnd, word, converted, target_layout, idx, log, short>>
    /\ UNCHANGED <<borderVars, before, clipOpen, mapperVars, desktopVars>>

\* user32.UnregisterHotKey(None, HOTKEY_ID_CONVERT)
Unregister ==
    /\ lpc = "unregister"
    /\ osHotkey' = FALSE
    /\ lpc' = "stopped"
    /\ UNCHANGED <<running, hotkey_registered, msgs, pressesLeft>>
    /\ UNCHANGED <<borderVars, before, clipOpen, mapperVars, desktopVars, workerVars>>

\* on_quit / cleanup: self.running = False
Quit ==
    /\ running
    /\ running' = FALSE
    /\ UNCHANGED <<hotkey_registered, lpc, osHotkey, msgs, pressesLeft>>
    /\ UNCHANGED <<borderVars, before, clipOpen, mapperVars, desktopVars, workerVars>>

\* run() returns after cleanup() and main() ends: the interpreter exits
\* without joining the hotkey thread and the workers, all daemon threads,
\* wherever they are; the OS drops the hotkey of a thread that is gone
ProcessExit ==
    /\ ~running
    /\ lpc' = IF lpc \in {"stopped", "exited"} THEN lpc ELSE "killed"
    /\ osHotkey' = FALSE
    /\ wpc' = [w \in Workers |-> IF Running(w) THEN "killed" ELSE wpc[w]]
    /\ UNCHANGED <<running, hotkey_registered, msgs, pressesLeft>>
    /\ UNCHANGED <<whwnd, word, converted, target_layout, result, idx, log, short>>
    /\ UNCHANGED <<borderVars, before, clipOpen, mapperVars, desktopVars>>

-----------------------------------------------------------------------------
(* Border overlay: _check_layout on the UI thread, toggle_borders on the   *)
(* tray thread.  The colour update of _check_layout touches no visibility  *)
(* state and is left out.                                                  *)

RestUnchanged ==
    UNCHANGED <<before, clipOpen, mapperVars, listenerVars, pressesLeft,
                desktopVars, workerVars>>

\* BorderWindow.set_visible on the i-th border of the list
set_visible(i, visible) == borders' = [borders EXCEPT ![i] = visible]

\* if not self.running: return; if monitors != self.current_monitors: ...
CheckLayoutStart ==
    /\ upc = "idle"
    /\ upc' = IF ~running THEN "stopped"
              ELSE IF monitors # current_monitors THEN "rebuild" ELSE "detect"
    /\ UNCHANGED <<borders_visible, fullscreen_hidden, borders, current_monitors,
                   monitors, ui, pending, tpc, ti, tstale>>
    /\ RestUnchanged

\* _create_borders: destroy the borders, self.borders = [],
\* self.current_monitors = get_all_monitors()
CreateBordersReset ==
    /\ upc = "rebuild"
    /\ borders' = <<>>
    /\ current_monitors' = monitors
    /\ tstale' = (tstale \/ tpc = "loop")
    /\ upc' = "create"
    /\ UNCHANGED <<borders_visible, fullscreen_hidden, monitors, ui, pending,
                   tpc, ti>>
    /\ RestUnchanged

\* border = BorderWindow(...); if not self.borders_visible or
\* self.fullscreen_hidden: border.set_visible(False)
CreateBordersMake ==
    /\ upc = "create"
    /\ IF Len(borders) < EdgesPerMonitor * current_monitors
       THEN /\ pending' = ~(~borders_visible \/ fullscreen_hidden)
            /\ upc' = "append"
       ELSE /\ upc' = "detect"
            /\ UNCHANGED pending
    /\ UNCHANGED <<borders_visible, fullscreen_hidden, borders, current_monitors,
                   monitors, ui, tpc, ti, tstale>>
    /\ RestUnchanged

\* self.borders.append(border)
CreateBordersAppend ==
    /\ upc = "append"
    /\ borders' = Append(borders, pending)
    /\ upc' = "create"
    /\ UNCHANGED <<borders_visible, fullscreen_hidden, current_monitors,
                   monitors, ui, pending, tpc, ti, tstale>>
    /\ RestUnchanged

\* fullscreen = is_fullscreen(hwnd); if fullscreen and not
\* self.fullscreen_hidden: ... elif not fullscreen and self.fullscreen_hidden: ...
CheckLayoutDetect ==
    /\ upc = "detect"
    /\ \E fullscreen \in BOOLEAN :
         IF fullscreen /\ ~fullscreen_hidden
         THEN fullscreen_hidden' = TRUE /\ upc' = "hide"
         ELSE IF ~fullscreen /\ fullscreen_hidden
              THEN fullscreen_hidden' = FALSE /\ upc' = "show_test"
              ELSE UNCHANGED fullscreen_hidden /\ upc' = "idle"
    /\ ui' = 0
    /\ UNCHANGED <<borders_visible, borders, current_monitors, monitors,
                   pending, tpc, ti, tstale>>
    /\ RestUnchanged

\* for border in self.borders: border.set_visible(False)
CheckLayoutHide ==
    /\ upc = "hide"
    /\ IF ui < Len(borders)
       THEN set_visible(ui + 1, FALSE) /\ ui' = ui + 1 /\ UNCHANGED upc
       ELSE upc' = "idle" /\ ui' = 0 /\ UNCHANGED borders
    /\ UNCHANGED <<borders_visible, fullscreen_hidden, current_monitors,
                   monitors, pending, tpc, ti, tstale>>
    /\ RestUnchanged

\* if self.borders_visible:
CheckLayoutShowTest ==
    /\ upc = "show_test"
    /\ upc' = IF borders_visible THEN "show" ELSE "idle"
    /\ UNCHANGED <<borders_visible, fullscreen_hidden, borders, current_monitors,
                   monitors, ui, pending, tpc, ti, tstale>>
    /\ RestUnchanged

\* for border in self.borders: border.set_visible(True)
CheckLayoutShow ==
    /\ upc = "show"
    /\ IF ui < Len(borders)
       THEN set_visible(ui + 1, TRUE) /\ ui' = ui + 1 /\ UNCHANGED upc
       ELSE upc' = "idle" /\ ui' = 0 /\ UNCHANGED borders
    /\ UNCHANGED <<borders_visible, fullscreen_hidden, current_monitors,
                   monitors, pending, tpc, ti, tstale>>
    /\ RestUnchanged

\* toggle_borders: self.borders_visible = not self.borders_visible
ToggleBordersFlip ==
    /\ tpc = "idle"
    /\ borders_visible' = ~borders_visible
    /\ tpc' = "test"
    /\ UNCHANGED <<fullscreen_hidden, borders, current_monitors, monitors, upc,
                   ui, pending, ti, tstale>>
    /\ RestUnchanged

\* if not self.fullscreen_hidden: for border in self.borders:
ToggleBordersTest ==
    /\ tpc = "test"
    /\ tpc' = IF ~fullscreen_hidden THEN "loop" ELSE "idle"
    /\ ti' = 0
    /\ tstale' = FALSE
    /\ UNCHANGED <<borders_visible, fullscreen_hidden, borders, current_monitors,
                   monitors, upc, ui, pending>>
    /\ RestUnchanged

\* border.set_visible(self.borders_visible); on a list that _create_borders
\* has replaced the windows are destroyed and the call raises
ToggleBordersSet ==
    /\ tpc = "loop"
    /\ IF ~tstale /\ ti < Len(borders)
       THEN set_visible(ti + 1, borders_visible) /\ ti' = ti + 1 /\ UNCHANGED tpc
       ELSE tpc' = "idle" /\ ti' = 0 /\ UNCHANGED borders
    /\ UNCHANGED <<borders_visible, fullscreen_hidden, current_monitors,
                   monitors, upc, ui, pending, tstale>>
    /\ RestUnchanged

\* a monitor is plugged in or removed
MonitorChange ==
    /\ \E n \in (1..MaxMonitors) \ {monitors} : monitors' = n
    /\ UNCHANGED <<borders_visible, fullscreen_hidden, borders, current_monitors,
                   upc, ui, pending, tpc, ti, tstale>>
    /\ RestUnchanged

-----------------------------------------------------------------------------
(* The user and the other programs of the desktop *)

\* the user presses Pause/Break: the OS posts WM_HOTKEY to the registering thread
HotkeyPress ==
    /\ osHotkey
    /\ pressesLeft > 0
    /\ Len(msgs) < MaxQueue
    /\ msgs' = Append(msgs, HotkeyMsg)
    /\ pressesLeft' = pressesLeft - 1
    /\ UNCHANGED <<running, hotkey_registered, lpc, osHotkey>>
    /\ UNCHANGED <<borderVars, before, clipOpen, mapperVars, desktopVars, workerVars>>

\* another message reaches the hotkey thread's queue
OtherMessage ==
    /\ lpc \in {"loop", "peek"}
    /\ Len(msgs) < MaxQueue
    /\ \E m \in OtherMsgs : msgs' = Append(msgs, m)
    /\ UNCHANGED <<running, hotkey_registered, lpc, osHotkey, pressesLeft>>
    /\ UNCHANGED <<borderVars, before, clipOpen, mapperVars, desktopVars, workerVars>>

\* another window, or none, becomes the foreground window
FocusChange ==
    /\ \E h \in (Hwnds \cup {0}) \ {fg} : fg' = h
    /\ UNCHANGED <<clipboard, selection, prevWord, consoleRow, attached,
                   inputBlocked>>
    /\ UNCHANGED <<borderVars, before, clipOpen, mapperVars, listenerVars, pressesLeft, workerVars>>

\* synthetic input becomes blocked, or allowed again
InputBlockChange ==
    /\ inputBlocked' = ~inputBlocked
    /\ UNCHANGED <<fg, clipboard, selection, prevWord, consoleRow, attached>>
    /\ UNCHANGED <<borderVars, before, clipOpen, mapperVars, listenerVars, pressesLeft, workerVars>>

-----------------------------------------------------------------------------
(* Texts on the desktop *)

Ruddsh == <<1088, 1091, 1076, 1076, 1096>>     \* the word of the end-to-end example
Helli  == <<104, 101, 108, 108, 105>>          \* h e l l i
Hello  == <<104, 101, 108, 108, 111>>          \* h e l l o

\* selections: none, the example word, "gh", "12", " sh " (padded), " "
Selections == { <<>>, Ruddsh, <<103, 104>>, <<49, 50>>, <<32, 1096, 32>>, <<32>> }

\* words left of the caret: none, "gh"
PrevWords == { <<>>, <<103, 104>> }

\* console rows up to the cursor: cursor at column 0, the example word,
\* "> gh", "gh " (cursor after a space), "12", "  "
ConsoleRows == { <<>>, Ruddsh, <<62, 32, 103, 104>>, <<103, 104, 32>>,
                 <<49, 50>>, <<32, 32>> }

\* clipboard before the attempt: empty, or "z" left by an earlier copy
Clipboards == { None, Some(<<122>>) }

-----------------------------------------------------------------------------
(* Specifications *)

\* LayoutIndicator.__init__ has created the borders of the one monitor and
\* run _check_layout once; no handler is running
BordersAtRest ==
    /\ borders_visible = TRUE
    /\ fullscreen_hidden \in BOOLEAN
    /\ monitors = 1
    /\ current_monitors = 1
    /\ borders = [i \in 1..EdgesPerMonitor |-> ~fullscreen_hidden]
    /\ upc = "idle"
    /\ ui = 0
    /\ pending = FALSE
    /\ tpc = "idle"
    /\ ti = 0
    /\ tstale = FALSE

MapperOff ==
    /\ mpc = "off"
    /\ mtext = <<>>
    /\ mlayout = "none"
    /\ mout = <<>>
    /\ mback = <<>>

WorkersIdle ==
    /\ whwnd = [w \in Workers |-> 0]
    /\ word = [w \in Workers |-> None]
    /\ converted = [w \in Workers |-> None]
    /\ target_layout = [w \in Workers |-> "none"]
    /\ result = [w \in Workers |-> "none"]
    /\ idx = [w \in Workers |-> 0]
    /\ log = [w \in Workers |-> <<>>]
    /\ short = [w \in Workers |-> FALSE]

\* LayoutIndicator.__init__ has started the hotkey thread; a Windows
\* Terminal window with the one-letter word "sh" selected has the focus and
\* synthetic input is not blocked
Init ==
    /\ MapperOff
    /\ running = TRUE
    /\ hotkey_registered = FALSE
    /\ lpc = "register"
    /\ osHotkey = FALSE
    /\ msgs = <<>>
    /\ pressesLeft = MaxPresses
    /\ fg = 3
    /\ clipboard = None
    /\ selection = <<1096>>
    /\ prevWord = <<>>
    /\ consoleRow = <<>>
    /\ attached = FALSE
    /\ inputBlocked = FALSE
    /\ wpc = [w \in Workers |-> "idle"]
    /\ WorkersIdle
    /\ clipOpen = 0
    /\ BordersAtRest
    /\ fullscreen_hidden = FALSE
    /\ before = [clipboard |-> clipboard, selection |-> selection]

WorkerTerminal(w) ==
    \/ WStart(w)
    \/ TermClear(w) \/ TermCopy(w) \/ TermRead(w) \/ TermConvert(w)
    \/ TermEnd(w) \/ TermBackspace(w) \/ TermType(w) \/ TermSwitch(w)
    \/ WorkerRaise(w)

WorkerPlain(w) ==
    \/ PlainClear(w) \/ PlainCopy(w) \/ PlainRead(w) \/ PlainExtend(w)
    \/ PlainConvert(w) \/ PlainWrite(w) \/ PlainPaste(w) \/ PlainSwitch(w)

WorkerConsole(w) ==
    \/ ConsoleRead(w) \/ ConsoleConvert(w) \/ ConsoleBackspace(w)
    \/ ConsoleType(w) \/ ConsoleSwitch(w)

Listener == Register \/ LoopTest \/ Peek \/ Unregister

\* the process with its hotkey thread and the workers it starts
Next ==
    \/ Listener
    \/ Quit
    \/ ProcessExit
    \/ HotkeyPress
    \/ OtherMessage
    \/ \E w \in Workers : WorkerTerminal(w)

Spec == Init /\ [][Next]_vars

\* the hotkey thread is scheduled as long as it has a step to take
SpecLive == Spec /\ WF_vars(Listener)

\* one attempt: the hotkey thread has just started worker 1, on any desktop
InitAttempt ==
    /\ MapperOff
    /\ running = TRUE
    /\ hotkey_registered = TRUE
    /\ lpc = "loop"
    /\ osHotkey = TRUE
    /\ msgs = <<>>
    /\ pressesLeft = 0
    /\ fg \in Hwnds \cup {0}
    /\ clipboard \in Clipboards
    /\ selection \in Selections
    /\ prevWord \in PrevWords
    /\ consoleRow \in ConsoleRows
    /\ attached = FALSE
    /\ inputBlocked \in BOOLEAN
    /\ wpc = [w \in Workers |-> IF w = 1 THEN "start" ELSE "idle"]
    /\ WorkersIdle
    /\ clipOpen = 0
    /\ BordersAtRest
    /\ fullscreen_hidden = FALSE
    /\ before = [clipboard |-> clipboard, selection |-> selection]

NextAttempt ==
    \/ WorkerTerminal(1)
    \/ WorkerPlain(1)
    \/ WorkerConsole(1)
    \/ FocusChange
    \/ InputBlockChange

SpecAttempt == InitAttempt /\ [][NextAttempt]_vars

\* two attempts in flight: the hotkey thread has started workers 1 and 2 for
\* two hotkey presses; a plain window or a Windows Terminal window with the
\* word "sh" (one RU letter) selected has the focus
InitPair ==
    /\ MapperOff
    /\ running = TRUE
    /\ hotkey_registered = TRUE
    /\ lpc = "loop"
    /\ osHotkey = TRUE
    /\ msgs = <<>>
    /\ pressesLeft = 0
    /\ fg \in {1, 3}
    /\ clipboard = None
    /\ selection = <<1096>>
    /\ prevWord = <<>>
    /\ consoleRow = <<>>
    /\ attached = FALSE
    /\ inputBlocked = FALSE
    /\ wpc = [w \in Workers |-> IF w \in {1, 2} THEN "start" ELSE "idle"]
    /\ WorkersIdle
    /\ clipOpen = 0
    /\ BordersAtRest
    /\ fullscreen_hidden = FALSE
    /\ before = [clipboard |-> clipboard, selection |-> selection]

NextPair ==
    \E w \in {1, 2} : WorkerTerminal(w) \/ WorkerPlain(w)

SpecPair == InitPair /\ [][NextPair]_vars

CheckLayout ==
    \/ CheckLayoutStart \/ CreateBordersReset \/ CreateBordersMake
    \/ CreateBordersAppend \/ CheckLayoutDetect \/ CheckLayoutHide
    \/ CheckLayoutShowTest \/ CheckLayoutShow

ToggleBorders == ToggleBordersFlip \/ ToggleBordersTest \/ ToggleBordersSet

\* the border overlay after LayoutIndicator.__init__: the polling callback,
\* the tray's toggle and quit items, monitors plugged in and out; the hotkey
\* thread waits and no conversion is in flight
InitBorders ==
    /\ MapperOff
    /\ running = TRUE
    /\ hotkey_registered = TRUE
    /\ lpc = "loop"
    /\ osHotkey = TRUE
    /\ msgs = <<>>
    /\ pressesLeft = 0
    /\ fg = 1
    /\ clipboard = None
    /\ selection = <<>>
    /\ prevWord = <<>>
    /\ consoleRow = <<>>
    /\ attached = FALSE
    /\ inputBlocked = FALSE
    /\ wpc = [w \in Workers |-> "idle"]
    /\ WorkersIdle
    /\ clipOpen = 0
    /\ BordersAtRest
    /\ before = [clipboard |-> clipboard, selection |-> selection]

NextBorders == CheckLayout \/ ToggleBorders \/ MonitorChange \/ Quit

SpecBorders == InitBorders /\ [][NextBorders]_vars

\* the layout mapper on its own
InitMapper ==
    /\ mpc = "input"
    /\ mtext \in MapperTexts
    /\ mlayout = "none"
    /\ mout = <<>>
    /\ mback = <<>>
    /\ running = TRUE
    /\ hotkey_registered = FALSE
    /\ lpc = "register"
    /\ osHotkey = FALSE
    /\ msgs = <<>>
    /\ pressesLeft = 0
    /\ fg = 0
    /\ clipboard = None
    /\ selection = <<>>
    /\ prevWord = <<>>
    /\ consoleRow = <<>>
    /\ attached = FALSE
    /\ inputBlocked = FALSE
    /\ wpc = [w \in Workers |-> "idle"]
    /\ WorkersIdle
    /\ clipOpen = 0
    /\ BordersAtRest
    /\ fullscreen_hidden = FALSE
    /\ before = [clipboard |-> clipboard, selection |-> selection]

MapperDetect ==
    /\ mpc = "input"
    /\ mlayout' = detect_layout(mtext)
    /\ mpc' = "detected"
    /\ UNCHANGED <<mtext, mout, mback>>
    /\ UNCHANGED <<borderVars, before, clipOpen, listenerVars, pressesLeft, desktopVars, workerVars>>

MapperConvert ==
    /\ mpc = "detected"
    /\ mout' = convert_text(mtext)
    /\ mpc' = "converted"
    /\ UNCHANGED <<mtext, mlayout, mback>>
    /\ UNCHANGED <<borderVars, before, clipOpen, listenerVars, pressesLeft, desktopVars, workerVars>>

MapperConvertBack ==
    /\ mpc = "converted"
    /\ mback' = convert_text(mout)
    /\ mpc' = "back"
    /\ UNCHANGED <<mtext, mlayout, mout>>
    /\ UNCHANGED <<borderVars, before, clipOpen, listenerVars, pressesLeft, desktopVars, workerVars>>

NextMapper == MapperDetect \/ MapperConvert \/ MapperConvertBack

SpecMapper == InitMapper /\ [][NextMapper]_vars

-----------------------------------------------------------------------------
(* Reading a worker's log *)

Kind(e) ==
    CASE IsBackspace(e) -> "backspace"
      [] IsEnd(e)       -> "end"
      [] IsInject(e)    -> "inject"
      [] IsPaste(e)     -> "paste"
      [] IsCopy(e)      -> "copy"
      [] IsExtend(e)    -> "extend"
      [] IsTermCopy(e)  -> "terminal-copy"
      [] OTHER          -> e.call

Kinds(l) == [i \in 1..Len(l) |-> Kind(l[i])]

Rep(k, n) == [i \in 1..n |-> k]

\* the events that replace the text: key presses, injections, clipboard write, paste
IsReplacement(e) ==
    Kind(e) \in {"backspace", "end", "inject", "paste", "set_clipboard_text"}

IsReplacementOrPost(e) == IsReplacement(e) \/ IsPost(e)

\* the characters injected, in order
Injected(l) ==
    LET inj == SelectSeq(l, IsInject)
    IN  [i \in 1..Len(inj) |-> inj[i].inputs[1].wScan]

Posts(l) == SelectSeq(l, IsPost)

\* the window GetForegroundWindow returned to switch_keyboard_layout
SwitchForeground(l) ==
    LET f == SelectSeq(l, IsForeground) IN f[Len(f)].arg[1]

Succeeded(w) == wpc[w] = "done" /\ result[w] = "True"
Aborted(w)   == wpc[w] = "done" /\ result[w] = "False"

\* the layout-change requests of a successful attempt: one to the window in
\* the foreground when switch_keyboard_layout ran, none if there was none
PostsAsCoded(w, hkl) ==
    IF SwitchForeground(log[w]) # 0
    THEN Posts(log[w]) = <<PostCall(SwitchForeground(log[w]), hkl)>>
    ELSE Posts(log[w]) = <<>>

-----------------------------------------------------------------------------
(* C1 *)

\* C1, as stated: for the acquired word "ruddsh" (Cyrillic), the layout is
\* detected as RU, the converted text is "hello", and a successful attempt
\* issues exactly 5 backspaces, then exactly 5 character injections, then one
\* layout-change request for the EN layout.
C1_AsStated ==
    \A w \in Workers :
        word[w] = Some(Ruddsh) =>
            /\ detect_layout(Ruddsh) = "ru"
            /\ converted[w] # None => converted[w] = Some(Hello)
            /\ Succeeded(w) =>
                 /\ Kinds(SelectSeq(log[w], IsReplacementOrPost))
                      = Rep("backspace", 5) \o Rep("inject", 5) \o <<"PostMessageW">>
                 /\ Posts(log[w])[1].arg[2] = HKL_EN

\* C1, amended: for the acquired word "ruddsh" the layout is detected as RU
\* and the converted text is "helli"; a successful classic-console attempt
\* issues exactly 5 backspaces then the 5 injections h e l l i, a successful
\* terminal attempt the same after one End key press, a successful plain
\* attempt writes "helli" to the clipboard and sends one paste combo; then
\* one layout-change request for the EN layout goes to the foreground
\* window, or none if there is no foreground window at that moment.
C1_EndToEnd ==
    \A w \in Workers :
        word[w] = Some(Ruddsh) =>
            /\ detect_layout(Ruddsh) = "ru"
            /\ converted[w] # None =>
                 converted[w] = Some(Helli) /\ target_layout[w] = "en"
            /\ Succeeded(w) =>
                 /\ Kinds(SelectSeq(log[w], IsReplacement)) =
                      CASE Category(whwnd[w]) = "LegacyConsole" ->
                             Rep("backspace", 5) \o Rep("inject", 5)
                        [] Category(whwnd[w]) = "ModernTerminal" ->
                             <<"end">> \o Rep("backspace", 5) \o Rep("inject", 5)
                        [] OTHER -> <<"set_clipboard_text", "paste">>
                 /\ Category(whwnd[w]) # "Plain" => Injected(log[w]) = Helli
                 /\ Category(whwnd[w]) = "Plain" =>
                      \A i \in Where(log[w], IsWrite) : log[w][i].arg = Helli
                 /\ PostsAsCoded(w, HKL_EN)
                 /\ \A i \in Where(log[w], IsPost), j \in Where(log[w], IsReplacement) :
                      j < i

\* a classic-console attempt on "ruddsh" has succeeded and posted its request
C1_Witness ==
    \E w \in Workers :
        /\ word[w] = Some(Ruddsh)
        /\ Succeeded(w)
        /\ Category(whwnd[w]) = "LegacyConsole"
        /\ Len(Posts(log[w])) = 1

-----------------------------------------------------------------------------
(* C2, C3 : the mapper on single-table strings *)

AllIn(text, tbl) == \A i \in 1..Len(text) : InTable(text[i], tbl)

\* every character replaced by the one at its position in the other table
Positional(text, from, to) == [i \in 1..Len(text) |-> to[IndexIn(text[i], from)]]

\* C2, as stated: for every string whose characters all belong to one table
\* A (EN_CHARS or RU_CHARS), convert_text gives a string of the same length
\* whose i-th character is the other table's character at the position of
\* s[i] in A.
C2_AsStated ==
    mpc \in {"converted", "back"} =>
        /\ AllIn(mtext, EN_CHARS) =>
             Len(mout) = Len(mtext) /\ mout = Positional(mtext, EN_CHARS, RU_CHARS)
        /\ AllIn(mtext, RU_CHARS) =>
             Len(mout) = Len(mtext) /\ mout = Positional(mtext, RU_CHARS, EN_CHARS)

\* C2, amended: the same for every string whose characters all belong to
\* EN_CHARS, and for every string whose characters all belong to RU_CHARS
\* and at least one of them is not in EN_CHARS; a string made only of the
\* characters the two tables share ( . , " ; : ? ) is detected as EN and
\* mapped through the EN table.
C2_Positional ==
    mpc \in {"converted", "back"} =>
        /\ AllIn(mtext, EN_CHARS) =>
             Len(mout) = Len(mtext) /\ mout = Positional(mtext, EN_CHARS, RU_CHARS)
        /\ AllIn(mtext, RU_CHARS) /\ ~AllIn(mtext, EN_CHARS) =>
             Len(mout) = Len(mtext) /\ mout = Positional(mtext, RU_CHARS, EN_CHARS)

\* "sh." (RU letter, then the shared '.') has been converted through the RU table
C2_Witness ==
    /\ mpc = "converted"
    /\ mtext = <<1096, 46>>
    /\ mout = <<105, 47>>

\* the EN characters whose RU counterpart is again an EN character: / ? @ $ ^ &
Unstable == {47, 63, 64, 36, 94, 38}

\* C3, as stated: convert_text(convert_text(s)) = s for every string drawn
\* from one table.
C3_AsStated ==
    mpc = "back" /\ (AllIn(mtext, EN_CHARS) \/ AllIn(mtext, RU_CHARS)) =>
        mback = mtext

\* C3, amended: convert_text(convert_text(s)) = s for every string drawn
\* from one table that is empty or has a character other than / ? @ $ ^ &
\* (strings of these only convert to shared characters, which are detected
\* as EN again and mapped forward a second time).
C3_RoundTrip ==
    mpc = "back" /\ (AllIn(mtext, EN_CHARS) \/ AllIn(mtext, RU_CHARS))
                 /\ (mtext = <<>> \/ \E i \in 1..Len(mtext) : mtext[i] \notin Unstable) =>
        mback = mtext

\* "h/" went to RU and came back
C3_Witness ==
    /\ mpc = "back"
    /\ mtext = <<104, 47>>
    /\ mout = <<1088, 46>>
    /\ mback = mtext

-----------------------------------------------------------------------------
(* C4 .. C8 : one attempt *)

\* C4: when the converted text equals the acquired text, the attempt has
\* returned failure and has sent no backspace, End, injection or paste, has
\* not written the clipboard and has posted no layout-change request, in
\* every window category.
C4_AbortPath ==
    \A w \in Workers :
        word[w] # None /\ converted[w] = word[w] =>
            /\ Aborted(w)
            /\ \A i \in 1..Len(log[w]) : ~IsReplacementOrPost(log[w][i])

\* a terminal attempt found nothing to convert in "12"
C4_Witness ==
    \E w \in Workers :
        /\ Category(whwnd[w]) = "ModernTerminal"
        /\ word[w] = Some(<<49, 50>>)
        /\ converted[w] = word[w]
        /\ Aborted(w)

IsAcquisition(e) == Kind(e) \in {"copy", "extend", "get_clipboard_text"}

IsPrefix(a, b) == Len(a) <= Len(b) /\ a = SubSeq(b, 1, Len(a))

\* C5: in a plain attempt an empty first clipboard read is followed by the
\* extend-selection combo exactly once, then one more copy combo and one
\* more read; when that read is empty too the attempt returns failure with
\* no further call; a non-empty first read is never followed by the
\* extend-selection combo.
C5_Fallback ==
    \A w \in Workers :
        LET acq   == SelectSeq(log[w], IsAcquisition)
            reads == SelectSeq(log[w], IsRead)
        IN  Category(whwnd[w]) = "Plain" /\ Len(reads) >= 1 =>
              /\ IsPrefix(Kinds(acq), <<"copy", "get_clipboard_text", "extend",
                                        "copy", "get_clipboard_text">>)
              /\ ~NotText(reads[1].arg) => Len(acq) = 2
              /\ NotText(reads[1].arg) /\ wpc[w] = "done" => Len(acq) = 5
              /\ Len(reads) = 2 /\ NotText(reads[2].arg) =>
                   Aborted(w) /\ IsRead(log[w][Len(log[w])])

\* a plain attempt gave up after the fallback: both reads were empty
C5_Witness ==
    \E w \in Workers :
        LET reads == SelectSeq(log[w], IsRead)
        IN  /\ Category(whwnd[w]) = "Plain"
            /\ Len(reads) = 2
            /\ NotText(reads[1].arg) /\ NotText(reads[2].arg)
            /\ Count(log[w], IsExtend) = 1
            /\ Aborted(w)

\* C6, as stated: a successful plain or classic-console attempt with
\* acquired text o and converted text c replaces o by exactly len(o)
\* backspaces, all before any injection, then the injection of the
\* characters of c in order.
C6_AsStated ==
    \A w \in Workers :
        Succeeded(w) /\ Category(whwnd[w]) \in {"Plain", "LegacyConsole"} =>
            /\ Kinds(SelectSeq(log[w], IsReplacement)) =
                 Rep("backspace", Len(word[w][1])) \o Rep("inject", Len(converted[w][1]))
            /\ Injected(log[w]) = converted[w][1]

\* C6, amended: a successful classic-console attempt replaces o by exactly
\* len(o) backspaces, all before any injection, then the injection of the
\* characters of c in order; a successful terminal attempt does the same
\* after one End key press; a successful plain attempt sends no backspace
\* and injects nothing: it writes c to the clipboard and sends one paste
\* combo.
C6_Replacement ==
    \A w \in Workers :
        Succeeded(w) =>
            CASE Category(whwnd[w]) = "LegacyConsole" ->
                   /\ Kinds(SelectSeq(log[w], IsReplacement)) =
                        Rep("backspace", Len(word[w][1]))
                          \o Rep("inject", Len(converted[w][1]))
                   /\ Injected(log[w]) = converted[w][1]
              [] Category(whwnd[w]) = "ModernTerminal" ->
                   /\ Kinds(SelectSeq(log[w], IsReplacement)) =
                        <<"end">> \o Rep("backspace", Len(word[w][1]))
                          \o Rep("inject", Len(converted[w][1]))
                   /\ Injected(log[w]) = converted[w][1]
              [] OTHER ->
                   /\ Kinds(SelectSeq(log[w], IsReplacement)) =
                        <<"set_clipboard_text", "paste">>
                   /\ \A i \in Where(log[w], IsWrite) : log[w][i].arg = converted[w][1]

\* a classic-console attempt replaced "gh" by two backspaces and two injections
C6_Witness ==
    \E w \in Workers :
        /\ Succeeded(w)
        /\ Category(whwnd[w]) = "LegacyConsole"
        /\ word[w] = Some(<<103, 104>>)
        /\ Count(log[w], IsBackspace) = 2
        /\ Injected(log[w]) = <<1087, 1088>>

\* the layout identifier opposite to the detected layout of the acquired text
SwitchTarget(w) ==
    IF detect_layout(word[w][1]) = "en" THEN HKL_RU ELSE HKL_EN

PostIsLast(w) ==
    \A i \in Where(log[w], IsPost), j \in Where(log[w], IsReplacement) : j < i

\* C7, as stated: a successful attempt posts exactly one layout-change
\* request, after all its deletion, injection or paste events, for RU if the
\* acquired text was detected as EN and for EN if it was detected as RU; an
\* attempt that aborts posts none.
C7_AsStated ==
    \A w \in Workers :
        /\ Succeeded(w) =>
             /\ Len(Posts(log[w])) = 1
             /\ Posts(log[w])[1].arg[2] = SwitchTarget(w)
             /\ PostIsLast(w)
        /\ Aborted(w) => Posts(log[w]) = <<>>

\* C7, amended: a successful attempt posts at most one layout-change
\* request: exactly one, to the window in the foreground when
\* switch_keyboard_layout runs, and none when there is no foreground window
\* then; the request comes after all deletion, injection or paste events and
\* is for RU if the acquired text was detected as EN and for EN if it was
\* detected as RU; an attempt that aborts posts none.
C7_LayoutSwitch ==
    \A w \in Workers :
        /\ Succeeded(w) => PostsAsCoded(w, SwitchTarget(w)) /\ PostIsLast(w)
        /\ Aborted(w) => Posts(log[w]) = <<>>

\* a plain attempt on the EN text "gh" pasted and asked its window for RU
C7_Witness ==
    \E w \in Workers :
        /\ Succeeded(w)
        /\ Category(whwnd[w]) = "Plain"
        /\ word[w] = Some(<<103, 104>>)
        /\ Count(log[w], IsPaste) = 1
        /\ Posts(log[w]) = <<PostCall(1, HKL_RU)>>

\* the entries a step adds to a worker's log
Added(w) == SubSeq(log'[w], Len(log[w]) + 1, Len(log'[w]))

\* C8: once a SendInput call of an attempt has accepted fewer events than
\* submitted, the attempt issues no further deletion, injection, paste or
\* layout-change event and returns failure.
C8_ShortSendAborts ==
    [][ \A w \in Workers :
          short[w] =>
            /\ \A i \in 1..Len(Added(w)) : ~IsReplacementOrPost(Added(w)[i])
            /\ wpc'[w] = "done" => result'[w] = "False" ]_vars

-----------------------------------------------------------------------------
(* C9, C10 : the hotkey thread and its workers *)

Failed(w) == wpc[w] = "raised" \/ Aborted(w)

\* the step ends worker w's attempt in failure
Fails(w) ==
    /\ Running(w)
    /\ wpc'[w] = "raised" \/ (wpc'[w] = "done" /\ result'[w] = "False")

\* C9: a step in which an attempt fails (an OS call fails or an error is
\* raised) changes nothing of the hotkey thread and of the other workers;
\* after a failure the hotkey thread in its poll loop still holds the
\* registration, leaves the loop only when running is cleared, and starts a
\* worker for the next conversion hotkey message.
C9_FailureIsolation ==
    [][ /\ \A w \in Workers :
             Fails(w) =>
               /\ UNCHANGED listenerVars
               /\ \A v \in Workers \ {w} :
                    wpc'[v] = wpc[v] /\ log'[v] = log[v] /\ result'[v] = result[v]
        /\ (\E w \in Workers : Failed(w)) =>
             /\ lpc \in {"loop", "peek"} => osHotkey
             /\ lpc \in {"loop", "peek"} /\ lpc' \notin {"loop", "peek"} => ~running
             /\ lpc = "peek" /\ lpc' = "loop" /\ msgs # <<>> /\ Head(msgs) = HotkeyMsg =>
                  \E v \in Workers : wpc[v] = "idle" /\ wpc'[v] = "start"
      ]_vars

\* worker 1 has failed and the hotkey thread, still registered and
\* polling, has started worker 2
C9_Witness ==
    /\ Failed(1)
    /\ wpc[2] = "start"
    /\ lpc = "loop"
    /\ osHotkey
    /\ running

\* C10: a step of the hotkey thread (not the exit of the process, which ends
\* every thread) performs no step of a conversion (it
\* touches no worker's data, no log, nothing on the desktop); when it
\* dequeues the conversion hotkey message it starts exactly one new worker
\* and is back at the head of its loop, whatever the other workers are
\* doing; any other step of it starts no worker; and nothing else starts one.
C10_ListenerNeverStalled ==
    [][ /\ lpc' # lpc /\ lpc' # "killed" =>
             /\ UNCHANGED <<whwnd, word, converted, target_layout, result, idx,
                            log, short>>
             /\ UNCHANGED desktopVars
             /\ IF lpc = "peek" /\ msgs # <<>> /\ Head(msgs) = HotkeyMsg
                THEN /\ lpc' = "loop"
                     /\ \E w \in Workers :
                          wpc[w] = "idle" /\ wpc' = [wpc EXCEPT ![w] = "start"]
                ELSE wpc' = wpc
        /\ \A w \in Workers :
             wpc[w] = "idle" /\ wpc'[w] # "idle" => lpc = "peek" /\ lpc' = "loop"
        /\ lpc = "peek" => ENABLED Peek
      ]_vars

\* the hotkey thread polls while two workers are in the middle of their attempts
C10_Witness ==
    /\ lpc = "peek"
    /\ wpc[1] \in {"term_bs", "term_type"}
    /\ wpc[2] \in {"term_copy", "term_read"}

-----------------------------------------------------------------------------
(* Shutdown of the hotkey thread *)

\* the lifecycle state of the hotkey thread, by position: Unregistered 0,
\* Registered 1 (passed within the step that registers), Listening 2,
\* Unregistering 3, Stopped 4
Lifecycle(pc) ==
    CASE pc = "register"        -> 0
      [] pc \in {"loop", "peek"} -> 2
      [] pc = "unregister"      -> 3
      [] pc = "stopped"         -> 4
      [] OTHER                  -> 5

\* C11: once running is cleared after a successful registration the hotkey
\* thread eventually leaves its loop, unregisters and stops; it is never
\* stopped with the registration held; its lifecycle states are visited in
\* the order Unregistered, Registered, Listening, Unregistering, Stopped.
C11_Shutdown ==
    /\ [](lpc = "stopped" => ~osHotkey)
    /\ [][ Lifecycle(lpc) < 5 /\ Lifecycle(lpc') < 5 =>
             /\ Lifecycle(lpc') >= Lifecycle(lpc)
             /\ Lifecycle(lpc') = 3 => Lifecycle(lpc) \in {2, 3}
             /\ Lifecycle(lpc') = 4 => Lifecycle(lpc) \in {3, 4}
       ]_vars
    /\ (hotkey_registered /\ ~running) ~> (lpc = "stopped")

-----------------------------------------------------------------------------
(* Registration of the hotkey *)

\* C12: when RegisterHotKey fails the hotkey thread ends at once and for
\* good: the failing step sets neither hotkey_registered nor running and
\* starts no worker, and from then on the thread takes no step (it neither
\* polls nor unregisters), hotkey_registered stays false, no registration is
\* held, no worker is ever started and no hotkey message is ever queued; only
\* quitting clears running.
C12_RegistrationFailure ==
    [][ /\ lpc = "register" /\ lpc' = "exited" =>
             /\ ~hotkey_registered' /\ ~osHotkey'
             /\ UNCHANGED <<running, msgs, wpc, log>>
        /\ lpc = "exited" =>
             /\ lpc' = "exited"
             /\ ~hotkey_registered /\ ~hotkey_registered'
             /\ ~osHotkey /\ ~osHotkey'
             /\ msgs = <<>> /\ msgs' = <<>>
             /\ \A w \in Workers : wpc[w] = "idle" /\ wpc'[w] = "idle"
             /\ running' # running => running /\ lpc' = lpc
      ]_vars

\* registration has failed and the rest of the process is still running
C12_Witness ==
    /\ lpc = "exited"
    /\ running
    /\ ~hotkey_registered
    /\ pressesLeft = MaxPresses

\* C13: the OS holds a registration only between a successful RegisterHotKey
\* and UnregisterHotKey (or the end of the thread); RegisterHotKey is called
\* only at the start of the hotkey thread, which never comes back to it, and
\* no other step gains a registration; UnregisterHotKey is reached only from
\* the poll loop, with hotkey_registered set and the registration held.
C13_OneRegistration ==
    [][ /\ lpc # "register" => lpc' # "register"
        /\ lpc = "register" => ~osHotkey /\ ~hotkey_registered
        /\ osHotkey' /\ ~osHotkey =>
             /\ lpc = "register" /\ lpc' = "loop"
             /\ UNCHANGED workerVars
        /\ osHotkey => hotkey_registered /\ lpc \in {"loop", "peek", "unregister"}
        /\ lpc = "unregister" => hotkey_registered /\ osHotkey
        /\ lpc' = "unregister" /\ lpc # "unregister" => lpc = "loop"
        /\ lpc' = "stopped" /\ lpc # "stopped" => lpc = "unregister" /\ ~osHotkey'
      ]_vars

\* the registration is held while the thread polls and a worker is in flight
C13_Witness ==
    /\ osHotkey
    /\ hotkey_registered
    /\ lpc = "peek"
    /\ \E w \in Workers : wpc[w] = "term_read"

-----------------------------------------------------------------------------
(* Two workers in flight *)

\* worker v is between its copy combo and its clipboard read, or between its
\* clipboard write and its paste
InFlight(v) ==
    wpc[v] \in {"term_read", "plain_read1", "plain_read2", "plain_paste"}

\* C14: nothing orders two workers: whenever a worker is between its copy
\* combo and its clipboard read, or between its clipboard write and its
\* paste, the clipboard clear, the clipboard write or the synthetic-input
\* batch that another worker is about to make can be made right then.
C14_NotExcluded ==
    \A v \in Workers : \A w \in Workers \ {v} :
        InFlight(v) =>
          /\ wpc[w] = "term_clear" => ENABLED TermClear(w)
          /\ wpc[w] = "plain_clear" => ENABLED PlainClear(w)
          /\ wpc[w] = "plain_write" => ENABLED PlainWrite(w)
          /\ wpc[w] = "term_copy" => ENABLED TermCopy(w)
          /\ wpc[w] \in {"plain_copy1", "plain_copy2"} => ENABLED PlainCopy(w)
          /\ wpc[w] = "plain_paste" => ENABLED PlainPaste(w)
          /\ wpc[w] = "term_bs" => ENABLED TermBackspace(w)
          /\ wpc[w] = "term_type" => ENABLED TermType(w)

\* worker 1 has written its converted text and has not pasted yet, and the
\* clipboard is already empty again: worker 2 has cleared it in between
C14_Witness ==
    /\ wpc[1] = "plain_paste"
    /\ log[1][Len(log[1])] = WriteCall(converted[1][1])
    /\ wpc[2] = "plain_copy1"
    /\ log[2][Len(log[2])] = ClearCall
    /\ clipboard = None

-----------------------------------------------------------------------------
(* The mapper on any string *)

\* the characters of a table, as a set
Chars(tbl) == {tbl[k] : k \in 1..Len(tbl)}

\* the positions of text that hold a character of the table
Positions(text, tbl) == {i \in 1..Len(text) : text[i] \in Chars(tbl)}

\* C15: detect_layout gives EN exactly when at least as many characters of
\* the text are in EN_CHARS as are in RU_CHARS, and RU otherwise; a text with
\* no character of either table, the empty one included, gives EN.
C15_DetectLayout ==
    mpc # "input" =>
        /\ mlayout \in {"en", "ru"}
        /\ mlayout = "en" <=>
              Cardinality(Positions(mtext, EN_CHARS)) >=
                  Cardinality(Positions(mtext, RU_CHARS))
        /\ Positions(mtext, EN_CHARS) \cup Positions(mtext, RU_CHARS) = {} =>
              mlayout = "en"

\* "sh?h": one RU letter, one shared character and one EN letter, detected EN
C15_Witness ==
    /\ mpc = "detected"
    /\ mtext = <<1096, 63, 104>>
    /\ Cardinality(Positions(mtext, RU_CHARS)) = 2
    /\ mlayout = "en"

\* C17: convert_text(t) = t exactly when t holds no character of EN_CHARS
\* and none of RU_CHARS.
C17_UnchangedIffNoAlphabet ==
    mpc \in {"converted", "back"} =>
        (mout = mtext <=>
           Positions(mtext, EN_CHARS) \cup Positions(mtext, RU_CHARS) = {})

\* "1 " has no character of either table and is converted to itself
C17_Witness ==
    /\ mpc = "converted"
    /\ mtext = <<49, 32>>
    /\ mout = <<49, 32>>

-----------------------------------------------------------------------------
(* Classification of the foreground window *)

\* the strategy a position of the attempt belongs to
StrategyAt(pc) ==
    CASE pc \in {"con_read", "con_convert", "con_bs", "con_type", "con_switch"}
           -> "LegacyConsole"
      [] pc \in {"term_clear", "term_copy", "term_read", "term_convert",
                 "term_end", "term_bs", "term_type", "term_switch"}
           -> "ModernTerminal"
      [] pc \in {"plain_clear", "plain_copy1", "plain_read1", "plain_extend",
                 "plain_copy2", "plain_read2", "plain_convert", "plain_write",
                 "plain_paste", "plain_switch"}
           -> "Plain"
      [] OTHER -> "none"

\* the strategy the specification gives to a class name
StrategyFor(class_name) ==
    CASE class_name = "ConsoleWindowClass" -> "LegacyConsole"
      [] class_name \in {"CASCADIA_HOSTING_WINDOW_CLASS", "PseudoConsoleWindow"}
           -> "ModernTerminal"
      [] OTHER -> "Plain"

-----------------------------------------------------------------------------
(* Effects of an aborted attempt *)

\* C18: after an attempt that has aborted because the converted text equals
\* the acquired text, the clipboard content and the selection of the focused
\* application are what they were when the hotkey was pressed.
C18_AbortHasNoSideEffects ==
    \A w \in Workers :
        Aborted(w) /\ word[w] # None /\ converted[w] = word[w] =>
            /\ clipboard = before.clipboard
            /\ selection = before.selection

-----------------------------------------------------------------------------
(* Scoping of the clipboard *)

\* C19: every read, write and clear that opens the clipboard closes it
\* exactly once before it returns, whatever path it takes, and one that
\* could not open it does not close it: between the calls of the mediator
\* this process does not hold the clipboard open (and has not closed it more
\* often than it has opened it).
C19_ClipboardScoping ==
    clipOpen = 0

\* a plain attempt has cleared the clipboard, read it twice (the first read
\* found no text) and failed to write it; the clipboard is not held
C19_Witness ==
    /\ Kinds(log[1]) = <<"GetForegroundWindow", "clear_clipboard", "copy",
                         "get_clipboard_text", "extend", "copy",
                         "get_clipboard_text", "set_clipboard_text">>
    /\ word[1] # None
    /\ result[1] = "False"
    /\ clipOpen = 0

-----------------------------------------------------------------------------
(* Detaching from the console *)

IsConsoleRead(e) == e.call = "get_console_last_word"

\* C20: once get_console_last_word has returned, on whatever path, this
\* process is not attached to the console of the target process.
C20_ConsoleDetached ==
    \A w \in Workers :
        (\E i \in 1..Len(log[w]) : IsConsoleRead(log[w][i])) => ~attached

-----------------------------------------------------------------------------
(* Stale clipboard content *)

\* C21: in the Plain and ModernTerminal strategies the clipboard is emptied
\* before the copy combo, so the text the acquisition has returned is never
\* the content the clipboard already had when the attempt began (no
\* selection and no word left of the caret of the desktops considered
\* equals that content).
C21_NoStaleClipboard ==
    \A w \in Workers :
        /\ StrategyFor(get_window_class(whwnd[w])) \in {"Plain", "ModernTerminal"}
        /\ word[w] # None
        /\ before.clipboard # None
        => word[w][1] # before.clipboard[1]

-----------------------------------------------------------------------------
(* The arrays handed to SendInput *)

\* Page Up, Page Down, End, Home, the four arrows, Insert, Delete
NavigationKeys == {33, 34, 35, 36, 37, 38, 39, 40, 45, 46}

\* dwFlags has the bit of the flag set (the flag is a power of two)
HasFlag(dwFlags, flag) == (dwFlags \div flag) % 2 = 1

\* the events of every SendInput call of worker w, in order
Events(w) ==
    LET IsSendInput(e) == e.call = "SendInput"
        sends == SelectSeq(log[w], IsSendInput)
        F[i \in 0..Len(sends)] ==
            IF i = 0 THEN <<>> ELSE F[i - 1] \o sends[i].inputs
    IN  F[Len(sends)]

\* C22: every key event, down or up, of an extended key (arrows, Insert,
\* Delete, Home, End, Page Up, Page Down) that a key press, a combo or a
\* two-modifier combo has sent carries KEYEVENTF_EXTENDEDKEY.
C22_ExtendedKeyFlag ==
    \A w \in Workers :
        \A i \in 1..Len(Events(w)) :
            Events(w)[i].wVk \in NavigationKeys =>
                HasFlag(Events(w)[i].dwFlags, KEYEVENTF_EXTENDEDKEY)

\* the key an event presses or releases
KeyOf(ev) == <<ev.wVk, ev.wScan>>

\* the keys still held, innermost first, after the events are applied to the
\* keys in held; <<"unbalanced">> if an event releases a key that is not the
\* one pressed last
RECURSIVE HeldAfter(_, _)
HeldAfter(events, held) ==
    IF events = <<>> THEN held
    ELSE IF HasFlag(events[1].dwFlags, KEYEVENTF_KEYUP)
         THEN IF held # <<>> /\ held[1] = KeyOf(events[1])
              THEN HeldAfter(Tail(events), Tail(held))
              ELSE <<"unbalanced">>
         ELSE HeldAfter(Tail(events), <<KeyOf(events[1])>> \o held)

Modifiers == {VK_CONTROL, VK_SHIFT}

\* in the batch no modifier is pressed after a key that is not a modifier
ModifiersOutermost(events) ==
    \A i \in 1..Len(events) : \A j \in 1..Len(events) :
        /\ i < j
        /\ ~HasFlag(events[i].dwFlags, KEYEVENTF_KEYUP)
        /\ ~HasFlag(events[j].dwFlags, KEYEVENTF_KEYUP)
        /\ events[j].wVk \in Modifiers
        => events[i].wVk \in Modifiers

-----------------------------------------------------------------------------
(* The classic console strategy and the clipboard *)

\* C24: an attempt on a classic console window makes no clipboard call (no
\* clear, no read, no write), whether it is still running, has aborted or
\* has succeeded, and the clipboard holds what it held when the hotkey was
\* pressed.
C24_ConsoleLeavesClipboard ==
    \A w \in Workers :
        wpc[w] \notin {"idle", "start"}
          /\ get_window_class(whwnd[w]) = "ConsoleWindowClass" =>
            /\ \A i \in 1..Len(log[w]) :
                  log[w][i].call \notin
                      {"clear_clipboard", "get_clipboard_text", "set_clipboard_text"}
            /\ clipboard = before.clipboard

\* a classic console attempt has succeeded and the clipboard still holds "z"
C24_Witness ==
    /\ get_window_class(whwnd[1]) = "ConsoleWindowClass"
    /\ result[1] = "True"
    /\ before.clipboard = Some(<<122>>)
    /\ clipboard = Some(<<122>>)

-----------------------------------------------------------------------------
(* The window of the layout-change request *)

\* C25: every layout-change request of a successful attempt is posted to
\* the window handle the attempt obtained and classified at its start,
\* whatever window is in the foreground by then.
C25_SameWindowSwitch ==
    \A w \in Workers :
        Succeeded(w) =>
            \A i \in 1..Len(log[w]) :
                IsPost(log[w][i]) => log[w][i].arg[1] = whwnd[w]

-----------------------------------------------------------------------------
(* The console row after the replacement *)

\* the row up to the cursor once the console has received the key events
\* of the log: a backspace removes the character left of the cursor, an
\* injected character is written at the cursor
RECURSIVE RowAfter(_, _)
RowAfter(row, l) ==
    IF l = <<>> THEN row
    ELSE IF IsBackspace(l[1])
         THEN RowAfter(IF row = <<>> THEN row ELSE SubSeq(row, 1, Len(row) - 1),
                       Tail(l))
         ELSE IF IsInject(l[1])
              THEN RowAfter(Append(row, l[1].inputs[1].wScan), Tail(l))
              ELSE RowAfter(row, Tail(l))

\* where the final occurrence of text t in the row starts
FinalOccurrence(row, t) ==
    CHOOSE i \in 1..(Len(row) - Len(t) + 1) :
        /\ SubSeq(row, i, i + Len(t) - 1) = t
        /\ \A j \in (i + 1)..(Len(row) - Len(t) + 1) :
              SubSeq(row, j, j + Len(t) - 1) # t

\* the row with the final occurrence of t replaced by c
Replaced(row, t, c) ==
    LET i == FinalOccurrence(row, t)
    IN  SubSeq(row, 1, i - 1) \o c \o SubSeq(row, i + Len(t), Len(row))

\* C26: after a successful attempt on a classic console whose key events
\* were all accepted, the row up to the cursor is the row read at the start
\* with the final occurrence of the acquired word replaced by its
\* conversion, every other character unchanged.
C26_ConsoleDeletesTheWord ==
    \A w \in Workers :
        /\ Succeeded(w)
        /\ get_window_class(whwnd[w]) = "ConsoleWindowClass"
        /\ ~short[w]
        => RowAfter(consoleRow, log[w]) =
               Replaced(consoleRow, word[w][1], converted[w][1])

-----------------------------------------------------------------------------
(* Visibility of the borders *)

\* C27: whenever neither _check_layout nor toggle_borders is running, every
\* border is shown if and only if borders_visible is true and
\* fullscreen_hidden is false.
C27_BorderVisibility ==
    tpc = "idle" /\ upc \in {"idle", "stopped"} =>
        \A i \in 1..Len(borders) :
            borders[i] <=> (borders_visible /\ ~fullscreen_hidden)

====
